---- MODULE Spec2Model ----
(***************************************************************************)
(* A model of agent-primer: the recency cache (src/src/cache.ts), the      *)
(* discovery of skills and domains (src/src/types.ts lines 85-268, which   *)
(* hold the skill primitive, and src/src/primitives/domain.ts) and the     *)
(* selection loop of main (src/index.ts).                                  *)
(***************************************************************************)
EXTENDS Integers, Sequences, FiniteSets, TLC

(***************************************************************************)
(* Program constants.                                                      *)
(***************************************************************************)
\* cache.ts:15
MAX_RECENT == 10

\* index.ts:38, the registry: new SkillPrimitive(), new DomainPrimitive()
primitives == <<"skill", "domain">>

(***************************************************************************)
(* Bounds of the model.                                                    *)
(***************************************************************************)
\* the wall clock Date.now() reads one of 1..MaxNow
MaxNow == 2
\* number of updateCache calls in a sequence of calls
MaxCalls == 2
\* length of the item list handed to sortByRecent
MaxSortLen == 3
\* number of entries in the global root directory a discovery scans
MaxEntries == 2
\* iterations of the selection loop in one run
MaxRounds == 2

(***************************************************************************)
(* Names.  Item names are strings; the only operations the program applies *)
(* to them are equality (inside cache keys) and localeCompare.             *)
(***************************************************************************)
\* The collation order String.prototype.localeCompare uses (it differs from the
\* code-unit order, in which "Beta" comes before "alpha").
CollationOrder == <<"alpha", "Beta", "domains", "gamma", "skills">>

CollationRank(n) == CHOOSE i \in 1..Len(CollationOrder) : CollationOrder[i] = n

\* a.localeCompare(b): negative, zero or positive
localeCompare(a, b) ==
    IF CollationRank(a) < CollationRank(b) THEN -1
    ELSE IF CollationRank(a) > CollationRank(b) THEN 1
    ELSE 0

(***************************************************************************)
(* Array.prototype.sort with a comparator: a stable sort.  c[i][j] is the  *)
(* comparator's result for (s[i], s[j]).  Element i goes behind every      *)
(* element that compares smaller and behind every earlier element that     *)
(* compares equal.                                                         *)
(***************************************************************************)
StableSort(s, c) ==
    LET pos(i) == 1 + Cardinality({j \in 1..Len(s) : c[j][i] < 0})
                    + Cardinality({j \in 1..(i-1) : c[j][i] = 0})
    IN  [p \in 1..Len(s) |-> s[CHOOSE i \in 1..Len(s) : pos(i) = p]]

(***************************************************************************)
(* The recency cache, cache.ts.  cache.recent is a JavaScript object: a    *)
(* mapping that keeps its keys in insertion order, here a sequence of      *)
(* [k, t] entries with distinct keys.                                      *)
(***************************************************************************)
cacheKey(item) == <<item.type, item.source, item.name>>

HasKey(recent, k) == \E i \in 1..Len(recent) : recent[i].k = k

GetKey(recent, k) == recent[CHOOSE i \in 1..Len(recent) : recent[i].k = k].t

\* cache.recent[k] = t: an existing key keeps its place, a new key goes last
SetKey(recent, k, t) ==
    IF HasKey(recent, k)
    THEN [i \in 1..Len(recent) |->
            IF recent[i].k = k THEN [k |-> k, t |-> t] ELSE recent[i]]
    ELSE Append(recent, [k |-> k, t |-> t])

KeysOf(recent) == {recent[i].k : i \in 1..Len(recent)}

\* The cache file: missing; present but not readable (no permission, a
\* directory); empty; holding text that is not JSON ("corrupt"); holding JSON
\* that RecentCacheSchema rejects (not an object, `recent` not an object, a
\* value under `recent` that is not a number); or holding a mapping ("ok").
\* recent is what the text holds under `recent`, where it holds entries.
FileMissing == [state |-> "missing", recent |-> <<>>]
FileUnreadable == [state |-> "unreadable", recent |-> <<>>]
FileEmpty == [state |-> "empty", recent |-> <<>>]
FileCorrupt == [state |-> "corrupt", recent |-> <<>>]
FileNotObject == [state |-> "notObject", recent |-> <<>>]
FileRecentNotObject == [state |-> "recentNotObject", recent |-> <<>>]
FileValueNotNumber(recent) == [state |-> "valueNotNumber", recent |-> recent]
FileOk(recent) == [state |-> "ok", recent |-> recent]

existsSync(file) == file.state # "missing"

readFileSync(file) == [threw |-> file.state = "unreadable", data |-> file]

JSONparse(data) == [threw |-> data.state \in {"empty", "corrupt"}, value |-> data]

\* RecentCacheSchema.safeParse, types.ts lines 33-35
safeParse(value) == [success |-> value.state = "ok", data |-> value.recent]

\* readFileSync(CACHE_FILE) is reached only when existsSync(CACHE_FILE)
loadCacheReads(file) == IF existsSync(file) THEN 1 ELSE 0

\* the try block of loadCache: it returns parsed.data, throws, or falls through
loadCacheTry(file) ==
    IF ~existsSync(file) THEN [threw |-> FALSE, returned |-> FALSE, recent |-> <<>>]
    ELSE IF readFileSync(file).threw \/ JSONparse(readFileSync(file).data).threw
    THEN [threw |-> TRUE, returned |-> FALSE, recent |-> <<>>]
    ELSE LET parsedCache == safeParse(JSONparse(readFileSync(file).data).value)
         IN  [threw |-> FALSE, returned |-> parsedCache.success,
              recent |-> IF parsedCache.success THEN parsedCache.data ELSE <<>>]

\* loadCache with readFileSync and JSON.parse outside its try
loadCacheUncaught(file) ==
    [threw |-> loadCacheTry(file).threw, recent |-> loadCacheTry(file).recent]

\* loadCache as called: the catch swallows, and what did not return in the try
\* returns { recent: {} }
loadCacheRun(file) ==
    [threw |-> FALSE,
     recent |-> IF loadCacheTry(file).returned THEN loadCacheTry(file).recent ELSE <<>>]

loadCache(file) == loadCacheRun(file).recent

\* a failed mkdirSync or writeFileSync is swallowed and leaves the file as it is
saveCache(file, recent, canWrite) == IF canWrite THEN FileOk(recent) ELSE file

RECURSIVE SetAll(_, _, _)
SetAll(recent, items, now) ==
    IF items = <<>> THEN recent
    ELSE SetAll(SetKey(recent, cacheKey(Head(items)), now), Tail(items), now)

\* entries.sort((a, b) => b[1] - a[1])
ByTimeDesc(entries) ==
    [i \in 1..Len(entries) |-> [j \in 1..Len(entries) |-> entries[j].t - entries[i].t]]

\* Prune with the entries.length > MAX_RECENT branch never taken
PruneNever(recent) == recent

\* Prune to keep only MAX_RECENT most recent
Prune(recent) ==
    IF Len(recent) > MAX_RECENT
    THEN SubSeq(StableSort(recent, ByTimeDesc(recent)), 1, MAX_RECENT)
    ELSE recent

\* the mapping updateCache hands to saveCache
updatedRecent(file, items, now) == Prune(SetAll(loadCache(file), items, now))

updateCache(file, items, now, canWrite) ==
    saveCache(file, updatedRecent(file, items, now), canWrite)

\* the comparator of sortByRecent: cache.recent[key] || 0, then the names
recentTime(recent, item) ==
    IF HasKey(recent, cacheKey(item)) THEN GetKey(recent, cacheKey(item)) ELSE 0

ByRecent(items, recent) ==
    [i \in 1..Len(items) |-> [j \in 1..Len(items) |->
        IF recentTime(recent, items[i]) # recentTime(recent, items[j])
        THEN recentTime(recent, items[j]) - recentTime(recent, items[i])
        ELSE localeCompare(items[i].name, items[j].name)]]

\* sortByRecent without its tie-break on the names
sortByRecentTimeOnly(items, recent) ==
    StableSort(items,
        [i \in 1..Len(items) |-> [j \in 1..Len(items) |->
            recentTime(recent, items[j]) - recentTime(recent, items[i])]])

sortByRecent(items, recent) == StableSort(items, ByRecent(items, recent))

\* the caller's array after the call: [...items] sorts a copy
sortByRecentArg(items, recent) == items

(***************************************************************************)
(* Discovery, types.ts lines 120-202 (skills) and domain.ts lines 36-115   *)
(* (domains).  A root directory is missing, a path that is not a directory *)
(* ("file"), a directory that cannot be listed ("unreadable"), or a        *)
(* directory ("dir") with its entries in listing order.  An entry has a    *)
(* name, may be a symbolic link, and leads to a directory ("dir"), to a    *)
(* file ("file") or nowhere ("none", a dangling link); real is the base    *)
(* name of the directory it resolves to, hasReq whether that directory     *)
(* holds the required file, readable whether readFileSync and the front    *)
(* matter parser succeed on the candidate file, fmName and fmDesc the      *)
(* front matter's fields ("" when absent or invalid).                      *)
(***************************************************************************)
requiredFile(type) == IF type = "skill" THEN "SKILL.md" ELSE "DOMAIN.md"

\* basename of GLOBAL_SKILLS_DIR / LOCAL_SKILLS_DIR, of the domain roots
rootBasename(type) == IF type = "skill" THEN "skills" ELSE "domains"

RootMissing == [kind |-> "missing", entries |-> <<>>]
RootNotDir == [kind |-> "file", entries |-> <<>>]
RootUnreadable == [kind |-> "unreadable", entries |-> <<>>]
RootDir(entries) == [kind |-> "dir", entries |-> entries]

\* what one entry of the listing adds to paths: <<>> or one candidate
entryPaths(type, source, e) ==
    IF e.link /\ e.target = "none" THEN <<>>
    ELSE IF e.target = "dir"
         THEN IF e.hasReq
              THEN <<[loc |-> <<type, source, e.real>>, dir |-> e.real,
                      readable |-> e.readable, fmName |-> e.fmName, fmDesc |-> e.fmDesc]>>
              ELSE <<>>
         ELSE IF e.name = requiredFile(type)
              THEN <<[loc |-> <<type, source, "">>, dir |-> rootBasename(type),
                      readable |-> e.readable, fmName |-> e.fmName, fmDesc |-> e.fmDesc]>>
              ELSE <<>>

RECURSIVE entriesPaths(_, _, _)
entriesPaths(type, source, entries) ==
    IF entries = <<>> THEN <<>>
    ELSE entryPaths(type, source, Head(entries)) \o entriesPaths(type, source, Tail(entries))

\* discoverSkillPaths / discoverDomainPaths: readdirSync throws on a root that
\* exists and is not a listable directory
discoverPaths(type, source, root) ==
    IF root.kind = "missing" THEN [threw |-> FALSE, paths |-> <<>>]
    ELSE IF root.kind # "dir" THEN [threw |-> TRUE, paths |-> <<>>]
    ELSE [threw |-> FALSE, paths |-> entriesPaths(type, source, root.entries)]

\* parseSkill / parseDomain: <<>> stands for null
parseItem(type, source, p) ==
    IF ~p.readable THEN <<>>
    ELSE <<[type |-> type,
            name |-> IF p.fmName # "" THEN p.fmName ELSE p.dir,
            description |-> IF p.fmDesc # "" THEN p.fmDesc ELSE "No description provided",
            path |-> p.loc,
            source |-> source]>>

RECURSIVE parseAll(_, _, _)
parseAll(type, source, paths) ==
    IF paths = <<>> THEN <<>>
    ELSE parseItem(type, source, Head(paths)) \o parseAll(type, source, Tail(paths))

\* whether the local root is scanned: skills skip it when it resolves to the
\* global root, domains always scan it
scansLocal(type, cwdIsHome) == type = "domain" \/ ~cwdIsHome

\* SkillPrimitive.discoverItems / DomainPrimitive.discoverItems
discoverItems(type, f) ==
    LET g == discoverPaths(type, "global", f.roots[type].global)
        l == IF scansLocal(type, f.cwdIsHome)
             THEN discoverPaths(type, "local", f.roots[type].local)
             ELSE [threw |-> FALSE, paths |-> <<>>]
    IN  IF g.threw \/ l.threw
        THEN [threw |-> TRUE, items |-> <<>>]
        ELSE [threw |-> FALSE,
              items |-> parseAll(type, "global", g.paths) \o parseAll(type, "local", l.paths)]

\* primitives.flatMap((p) => p.discoverItems())
discoverAll(f) ==
    LET sk == discoverItems(primitives[1], f)
        dm == discoverItems(primitives[2], f)
    IN  IF sk.threw \/ dm.threw
        THEN [threw |-> TRUE, items |-> <<>>]
        ELSE [threw |-> FALSE, items |-> sk.items \o dm.items]

(***************************************************************************)
(* Argument parsing, index.ts lines 50-80.  argv is process.argv.slice(2). *)
(***************************************************************************)
IndexOf(seq, x) ==
    IF \E i \in 1..Len(seq) : seq[i] = x
    THEN CHOOSE i \in 1..Len(seq) : seq[i] = x /\ \A j \in 1..(i-1) : seq[j] # x
    ELSE 0

IsHelp(a) == a = "--help" \/ a = "-h"
IsClear(a) == a = "--clear-recent"
IsList(a) == a = "--list" \/ a = "-l"

RECURSIVE Others(_)
Others(flagArgs) ==
    IF flagArgs = <<>> THEN <<>>
    ELSE (IF IsHelp(Head(flagArgs)) \/ IsClear(Head(flagArgs)) \/ IsList(Head(flagArgs))
          THEN <<>> ELSE <<Head(flagArgs)>>) \o Others(Tail(flagArgs))

parseArgs(a, dangerous) ==
    LET separator == IndexOf(a, "--")
        flagArgs == IF separator = 0 THEN a ELSE SubSeq(a, 1, separator - 1)
        after == IF separator = 0 THEN <<>> ELSE SubSeq(a, separator + 1, Len(a))
    IN  [help |-> \E i \in 1..Len(flagArgs) : IsHelp(flagArgs[i]),
         clearRecent |-> \E i \in 1..Len(flagArgs) : IsClear(flagArgs[i]),
         list |-> \E i \in 1..Len(flagArgs) : IsList(flagArgs[i]),
         dangerousMode |-> dangerous,
         claudeArgs |-> after \o Others(flagArgs)]

(***************************************************************************)
(* State.                                                                  *)
(***************************************************************************)
VARIABLES
    \* the environment
    argv,          \* process.argv.slice(2)
    dangerous,     \* AGENT_PRIMER_DANGEROUS === "1"
    fs,            \* the discovery roots, and whether cwd is the home directory
    cacheFile,     \* ~/.cache/agent-primer/recent.json
    canWrite,      \* whether mkdirSync/writeFileSync/unlinkSync on it succeed
    \* main
    pc,            \* where main stands
    args,          \* parseArgs(process.argv)
    allItems,
    cache,         \* cache.recent as loaded at index.ts:171
    sortedItems,
    selectedItems,
    group,         \* index of the picker shown, in Map.groupBy order
    confirmation,  \* the answer of the confirmation prompt ("": none yet)
    round,         \* iterations of the selection loop started
    \* what the run did
    tty,           \* the prompts shown, in order
    roundInput,    \* the selections returned by the pickers of this iteration
    logged,        \* the messages handed to the logger
    listed,        \* the item lines --list printed
    cancelled,     \* cancel("Cancelled") was called
    exitCode,      \* process.exit's code (-1: not exited)
    spawned,       \* the argument lists spawn("claude", ...) was called with
    cacheReads,    \* readFileSync calls on the cache file
    cacheWrites,   \* writeFileSync calls on the cache file
    loaded,        \* the loadContent calls made, in order
    \* a sequence of updateCache calls
    calls,         \* number of updateCache calls made so far
    setAt,         \* for each cache key, the last call that set it (0: none)
    \* processes running updateCache on the same cache file
    procs,         \* for each process, where its call stands and what it holds
    fileBefore     \* the cache file before the first of these calls

envVars == <<argv, dangerous, fs, cacheFile, canWrite>>
mainVars == <<pc, args, allItems, cache, sortedItems, selectedItems, group, confirmation, round>>
outVars == <<tty, roundInput, logged, listed, cancelled, exitCode, spawned, cacheReads, cacheWrites,
            loaded>>
callVars == <<calls, setAt>>
raceVars == <<procs, fileBefore>>
vars == <<envVars, mainVars, outVars, callVars, raceVars>>

PrimitiveItem(type, source, name) ==
    [type |-> type, name |-> name, description |-> "No description provided",
     path |-> <<type, source, name>>, source |-> source]

\* the twelve items with pairwise distinct cache keys, in a fixed order
AllItemSeq ==
    LET n == <<"alpha", "Beta", "gamma">>
        src == <<"global", "local">>
    IN  [i \in 1..12 |->
            PrimitiveItem(primitives[((i - 1) \div 6) + 1],
                          src[(((i - 1) \div 3) % 2) + 1],
                          n[((i - 1) % 3) + 1])]

AllKeys == {cacheKey(AllItemSeq[i]) : i \in 1..Len(AllItemSeq)}

NoFs == [cwdIsHome |-> FALSE,
         roots |-> [t \in {"skill", "domain"} |-> [global |-> RootMissing, local |-> RootMissing]]]

\* main has not run
MainIdle ==
    /\ argv = <<>>
    /\ dangerous = FALSE
    /\ pc = "idle"
    /\ args = parseArgs(<<>>, FALSE)
    /\ selectedItems = <<>>
    /\ group = 0
    /\ confirmation = ""
    /\ round = 0
    /\ tty = <<>>
    /\ roundInput = <<>>
    /\ logged = <<>>
    /\ listed = <<>>
    /\ cancelled = FALSE
    /\ exitCode = -1
    /\ spawned = <<>>
    /\ cacheReads = 0
    /\ cacheWrites = 0
    /\ loaded = <<>>

CallsIdle ==
    /\ calls = 0
    /\ setAt = [k \in AllKeys |-> 0]

\* no process is running updateCache
RaceIdle == procs = <<>> /\ fileBefore = FileMissing

(***************************************************************************)
(* SpecCache: a sequence of updateCache calls on one cache file.           *)
(***************************************************************************)
\* the item lists passed to updateCache
Batches ==
    {SubSeq(AllItemSeq, i, j) : i \in {1, 11, 12}, j \in {0, 1, 10, 11, 12}}

\* cache files holding the last n keys, all with timestamp t; a timestamp
\* later than every clock reading is a file written before the clock was set back
StampedFile(n, t) ==
    FileOk([i \in 1..n |-> [k |-> cacheKey(AllItemSeq[12 - n + i]), t |-> t]])

CacheFiles ==
    {FileMissing, FileCorrupt}
        \cup {StampedFile(n, t) : n \in {0, 1, 9, 10, 11, 12}, t \in 1..(MaxNow + 1)}

InitCache ==
    /\ MainIdle
    /\ fs = NoFs
    /\ allItems = <<>>
    /\ cache = <<>>
    /\ sortedItems = <<>>
    /\ cacheFile \in CacheFiles
    /\ canWrite \in BOOLEAN
    /\ CallsIdle
    /\ RaceIdle

\* one updateCache(items) call with Date.now() = now; procs and fileBefore keep
\* what the call was given and the file it found
UpdateCacheCall(items, now) ==
    /\ calls < MaxCalls
    /\ cacheFile' = updateCache(cacheFile, items, now, canWrite)
    /\ calls' = calls + 1
    /\ setAt' = [k \in AllKeys |->
                    IF \E i \in 1..Len(items) : cacheKey(items[i]) = k
                    THEN calls + 1 ELSE setAt[k]]
    /\ fileBefore' = cacheFile
    /\ procs' = <<[pc |-> "done", items |-> items, now |-> now,
                   local |-> updatedRecent(cacheFile, items, now)]>>
    /\ UNCHANGED <<argv, dangerous, fs, canWrite, mainVars, outVars>>

NextCache == \E items \in Batches, now \in 1..MaxNow : UpdateCacheCall(items, now)

SpecCache == InitCache /\ [][NextCache]_vars

\* keys recorded by the calls made so far
Recorded == {k \in AllKeys : setAt[k] > 0}

\* C2: after any updateCache call the persisted map has at most MAX_RECENT
\* entries, and once more than MAX_RECENT distinct keys have been recorded the
\* entries retained are the MAX_RECENT most recently set ones.  (Stated for the
\* calls whose write succeeded.)
C2_AtMostTenMostRecentlySet ==
    (calls > 0 /\ canWrite) =>
        /\ Len(cacheFile.recent) <= MAX_RECENT
        /\ Cardinality(Recorded) > MAX_RECENT =>
            /\ Len(cacheFile.recent) = MAX_RECENT
            /\ \A r \in KeysOf(cacheFile.recent) : \A d \in Recorded \ KeysOf(cacheFile.recent) :
                    setAt[r] >= setAt[d]

\* the last updateCache call: its items, its Date.now(), the mapping the file
\* held before it with the keys set, and the mapping the file holds after it
LastCall == procs[1]
LastKeys == {cacheKey(LastCall.items[i]) : i \in 1..Len(LastCall.items)}
LastMerged == SetAll(loadCache(fileBefore), LastCall.items, LastCall.now)
LastPersisted == loadCache(cacheFile)

\* C17: after updateCache(items) with at most MAX_RECENT distinct keys in
\* items and no timestamp in the file later than the current time, every key
\* of items is in the persisted cache with the current timestamp, every entry
\* removed had a timestamp not later than that of every entry kept, and the
\* entries of other keys keep their timestamps.
C17_ItemsPersisted ==
    (/\ calls > 0
     /\ Cardinality(LastKeys) <= MAX_RECENT
     /\ \A i \in 1..Len(loadCache(fileBefore)) : loadCache(fileBefore)[i].t <= LastCall.now) =>
        /\ \A k \in LastKeys :
                HasKey(LastPersisted, k) /\ GetKey(LastPersisted, k) = LastCall.now
        /\ \A r \in KeysOf(LastMerged) \ KeysOf(LastPersisted) : \A k \in KeysOf(LastPersisted) :
                HasKey(LastMerged, k) => GetKey(LastMerged, r) <= GetKey(LastMerged, k)
        /\ \A k \in KeysOf(LastPersisted) \ LastKeys :
                HasKey(loadCache(fileBefore), k)
                    /\ GetKey(LastPersisted, k) = GetKey(loadCache(fileBefore), k)

(***************************************************************************)
(* SpecLoad: one loadCache call on a cache file in any condition.          *)
(***************************************************************************)
LoadEntries ==
    {[k |-> cacheKey(AllItemSeq[i]), t |-> t] : i \in {1, 8}, t \in 0..MaxNow}

\* mappings of up to two entries
LoadMappings ==
    {<<>>} \cup {<<e>> : e \in LoadEntries}
        \cup {m \in LoadEntries \X LoadEntries : m[1].k # m[2].k}

LoadFiles ==
    {FileMissing, FileUnreadable, FileEmpty, FileCorrupt, FileNotObject, FileRecentNotObject}
        \cup {FileValueNotNumber(m) : m \in LoadMappings \ {<<>>}}
        \cup {FileOk(m) : m \in LoadMappings}

InitLoad ==
    /\ MainIdle
    /\ CallsIdle
    /\ RaceIdle
    /\ fs = NoFs
    /\ allItems = <<>>
    /\ sortedItems = <<>>
    /\ canWrite = TRUE
    /\ cacheFile \in LoadFiles
    /\ cache = <<>>

\* const cache = loadCache()
LoadCacheCall ==
    /\ pc = "idle"
    /\ cache' = loadCacheRun(cacheFile).recent
    /\ pc' = IF loadCacheRun(cacheFile).threw THEN "threw" ELSE "returned"
    /\ cacheReads' = cacheReads + loadCacheReads(cacheFile)
    /\ UNCHANGED <<envVars, args, allItems, sortedItems, selectedItems, group,
                   confirmation, round, tty, roundInput, logged, listed, cancelled,
                   exitCode, spawned, cacheWrites, loaded, callVars, raceVars>>

NextLoad == LoadCacheCall

SpecLoad == InitLoad /\ [][NextLoad]_vars

\* C12: loadCache never throws; for a missing file, an unreadable file, an
\* empty file, text that is not JSON, and JSON that is not a mapping of string
\* to number under `recent` it returns the empty mapping, and otherwise the
\* mapping the file holds; so what it returns always passes the cache schema.
C12_LoadCacheTotal ==
    /\ pc # "threw"
    /\ pc = "returned" =>
        /\ cacheFile.state = "ok" => cache = cacheFile.recent
        /\ cacheFile.state # "ok" => cache = <<>>

\* the call returned the empty mapping for a file that cannot be read
C12_Witness ==
    /\ pc = "returned"
    /\ cacheFile.state = "unreadable"
    /\ cache = <<>>
    /\ cacheReads = 1

(***************************************************************************)
(* SpecRace: two processes, each in one updateCache call on the same cache *)
(* file.  A process is alone between two of its system calls only:         *)
(* existsSync, readFileSync, and the open (which truncates) and the write  *)
(* of writeFileSync are steps of their own.                                *)
(***************************************************************************)
RaceProcs == {1, 2}

RaceBatches ==
    {<<AllItemSeq[1]>>, <<AllItemSeq[2], AllItemSeq[12]>>, SubSeq(AllItemSeq, 1, 6)}

\* files the program has left behind: none, a damaged one, or up to
\* MAX_RECENT entries
RaceFiles ==
    {FileMissing, FileCorrupt} \cup {StampedFile(n, 1) : n \in {1, 9, MAX_RECENT}}

InitRace ==
    /\ MainIdle
    /\ CallsIdle
    /\ fs = NoFs
    /\ allItems = <<>>
    /\ cache = <<>>
    /\ sortedItems = <<>>
    /\ canWrite \in BOOLEAN
    /\ cacheFile \in RaceFiles
    /\ fileBefore = cacheFile
    /\ procs \in [RaceProcs -> {[pc |-> "start", items |-> b, local |-> <<>>] : b \in RaceBatches}]

\* existsSync(CACHE_FILE) in loadCache; with no file, loadCache returns the
\* empty cache and the call goes on to Date.now(), the keys and the pruning
RaceExists(p, now) ==
    /\ procs[p].pc = "start"
    /\ procs' = IF existsSync(cacheFile)
                THEN [procs EXCEPT ![p].pc = "read"]
                ELSE [procs EXCEPT ![p].pc = "save",
                                   ![p].local = updatedRecent(cacheFile, procs[p].items, now)]
    /\ UNCHANGED <<envVars, mainVars, outVars, callVars, fileBefore>>

\* readFileSync(CACHE_FILE) and the rest of the call up to saveCache
RaceRead(p, now) ==
    /\ procs[p].pc = "read"
    /\ procs' = [procs EXCEPT ![p].pc = "save",
                              ![p].local = updatedRecent(cacheFile, procs[p].items, now)]
    /\ UNCHANGED <<envVars, mainVars, outVars, callVars, fileBefore>>

\* writeFileSync opens the file, which empties it; a failure ends saveCache
RaceOpen(p) ==
    /\ procs[p].pc = "save"
    /\ IF canWrite
       THEN /\ cacheFile' = FileEmpty
            /\ procs' = [procs EXCEPT ![p].pc = "write"]
       ELSE /\ cacheFile' = cacheFile
            /\ procs' = [procs EXCEPT ![p].pc = "done"]
    /\ UNCHANGED <<argv, dangerous, fs, canWrite, mainVars, outVars, callVars, fileBefore>>

\* writeFileSync writes its text from the start of the file.  Over text the
\* other process wrote since the open, the result is this text when it is at
\* least as long, and damaged text otherwise.
RaceWrite(p, longer) ==
    /\ procs[p].pc = "write"
    /\ cacheFile' = IF cacheFile = FileEmpty \/ longer
                    THEN FileOk(procs[p].local) ELSE FileCorrupt
    /\ procs' = [procs EXCEPT ![p].pc = "done"]
    /\ UNCHANGED <<argv, dangerous, fs, canWrite, mainVars, outVars, callVars, fileBefore>>

NextRace ==
    \E p \in RaceProcs :
        \/ \E now \in 1..MaxNow : RaceExists(p, now)
        \/ \E now \in 1..MaxNow : RaceRead(p, now)
        \/ RaceOpen(p)
        \/ \E longer \in BOOLEAN : RaceWrite(p, longer)

SpecRace == InitRace /\ [][NextRace]_vars

RaceDone == procs # <<>> /\ \A p \in RaceProcs : procs[p].pc = "done"

\* the keys the two calls set
RaceSet(p) == {cacheKey(procs[p].items[i]) : i \in 1..Len(procs[p].items)}

\* C14: whatever the interleaving of two updateCache calls on one cache file,
\* the file they leave holds at most MAX_RECENT entries.  (That a key can be
\* lost is the state C14_Witness describes.)
C14_AtMostTenUnderRace ==
    RaceDone => Len(cacheFile.recent) <= MAX_RECENT

\* both calls are over, the writes succeeded and left a well-formed file,
\* fewer than MAX_RECENT keys were ever recorded, and a key one call set is
\* not in the file
C14_Witness ==
    /\ RaceDone
    /\ canWrite
    /\ cacheFile.state = "ok"
    /\ Cardinality(KeysOf(fileBefore.recent) \cup RaceSet(1) \cup RaceSet(2)) < MAX_RECENT
    /\ \E p \in RaceProcs : \E k \in RaceSet(p) : k \notin KeysOf(cacheFile.recent)

(***************************************************************************)
(* SpecSort: sortByRecent applied to a list of items and a cache.          *)
(***************************************************************************)
\* items to sort: distinct names, one name under both sources, one key at two
\* paths, and an item of the other type
SortItems ==
    {PrimitiveItem("skill", "global", "Beta"),
     PrimitiveItem("skill", "global", "gamma"),
     PrimitiveItem("skill", "global", "alpha"),
     PrimitiveItem("skill", "local", "alpha"),
     [PrimitiveItem("skill", "global", "alpha") EXCEPT !.path = <<"skill", "global", "other">>],
     PrimitiveItem("domain", "global", "alpha")}

SeqsUpTo(S, n) == UNION {[1..m -> S] : m \in 0..n}

Entry(type, source, name, t) == [k |-> <<type, source, name>>, t |-> t]

\* timestamps a file passing RecentCacheSchema may hold: any number
SortCaches ==
    {<<>>,
     <<Entry("skill", "global", "Beta", MaxNow), Entry("skill", "global", "alpha", MaxNow)>>,
     <<Entry("skill", "global", "alpha", 1), Entry("skill", "global", "Beta", MaxNow)>>,
     <<Entry("skill", "global", "gamma", 0)>>,
     <<Entry("skill", "global", "gamma", -1), Entry("skill", "local", "alpha", 1)>>,
     <<Entry("domain", "global", "alpha", MaxNow), Entry("skill", "local", "alpha", 1)>>}

InitSort ==
    /\ MainIdle
    /\ CallsIdle
    /\ RaceIdle
    /\ fs = NoFs
    /\ cacheFile = FileMissing
    /\ canWrite = TRUE
    /\ allItems \in SeqsUpTo(SortItems, MaxSortLen)
    /\ cache \in SortCaches
    /\ sortedItems = <<>>

SortCall ==
    /\ pc = "idle"
    /\ sortedItems' = sortByRecent(allItems, cache)
    /\ allItems' = sortByRecentArg(allItems, cache)
    /\ pc' = "sorted"
    /\ UNCHANGED <<envVars, args, cache, selectedItems, group, confirmation, round, outVars, callVars, raceVars>>

NextSort == SortCall

SpecSort == InitSort /\ [][NextSort]_vars

\* the timestamp an item sorts by: its cache entry's, 0 without an entry
TimeOf(item) ==
    IF cacheKey(item) \in KeysOf(cache) THEN GetKey(cache, cacheKey(item)) ELSE 0

\* a before b: later timestamp, or the same timestamp and a name not after b's
InOrder(a, b) ==
    \/ TimeOf(a) > TimeOf(b)
    \/ TimeOf(a) = TimeOf(b) /\ CollationRank(a.name) <= CollationRank(b.name)

SameKeys(a, b) ==
    TimeOf(a) = TimeOf(b) /\ CollationRank(a.name) = CollationRank(b.name)

Rearrangements(n) == {p \in [1..n -> 1..n] : \A i, j \in 1..n : i # j => p[i] # p[j]}

\* out is a rearrangement of in, in order, with ties in their input order
IsStableSortOf(out, in) ==
    /\ Len(out) = Len(in)
    /\ \E p \in Rearrangements(Len(in)) :
        /\ \A i \in 1..Len(in) : out[i] = in[p[i]]
        /\ \A i, j \in 1..Len(in) :
                i < j => /\ InOrder(in[p[i]], in[p[j]])
                         /\ SameKeys(in[p[i]], in[p[j]]) => p[i] < p[j]

\* the example: A and C stamped alike, B without an entry, C's name before A's
ExampleA == PrimitiveItem("skill", "global", "Beta")
ExampleB == PrimitiveItem("skill", "global", "gamma")
ExampleC == PrimitiveItem("skill", "global", "alpha")
ExampleCache ==
    <<Entry("skill", "global", "Beta", MaxNow), Entry("skill", "global", "alpha", MaxNow)>>
IsExample == allItems = <<ExampleA, ExampleB, ExampleC>> /\ cache = ExampleCache

C5_Sorted ==
    pc = "sorted" =>
        /\ IsStableSortOf(sortedItems, allItems)
        /\ IsExample => sortedItems = <<ExampleC, ExampleA, ExampleB>>

\* C5: sortByRecent returns a permutation of items ordered by cached timestamp
\* descending (no entry: 0), then by name ascending, ties in input order (the
\* example yields [C, A, B]); the input sequence and the cache are not modified.
C5_SortByRecent ==
    /\ []C5_Sorted
    /\ [][allItems' = allItems /\ cache' = cache]_vars

\* the example has been sorted
C5_Witness == pc = "sorted" /\ IsExample /\ sortedItems = <<ExampleC, ExampleA, ExampleB>>

(***************************************************************************)
(* SpecDiscover: discoverItems of one primitive on a file system.          *)
(***************************************************************************)
DirEntry(name, hasReq, readable, fmName) ==
    [name |-> name, link |-> FALSE, target |-> "dir", real |-> name,
     hasReq |-> hasReq, readable |-> readable, fmName |-> fmName, fmDesc |-> ""]

LinkEntry(name, target, real) ==
    [name |-> name, link |-> TRUE, target |-> target, real |-> real,
     hasReq |-> target = "dir", readable |-> target = "dir", fmName |-> "", fmDesc |-> ""]

FileEntry(name, readable) ==
    [name |-> name, link |-> FALSE, target |-> "file", real |-> name,
     hasReq |-> FALSE, readable |-> readable, fmName |-> "", fmDesc |-> "described"]

\* a folder with the required file, one whose front matter names it "alpha", a
\* folder without the file, one whose file cannot be read, a dangling link, a
\* link to a folder, the required file at the root, another file
EntryKinds(type) ==
    {DirEntry("alpha", TRUE, TRUE, ""),
     DirEntry("Beta", TRUE, TRUE, "alpha"),
     DirEntry("alpha", FALSE, FALSE, ""),
     DirEntry("Beta", TRUE, FALSE, ""),
     LinkEntry("gamma", "none", ""),
     LinkEntry("gamma", "dir", "alpha"),
     FileEntry(requiredFile(type), TRUE),
     FileEntry("notes.md", TRUE)}

\* a directory lists each name once
DistinctNames(entries) ==
    \A i, j \in 1..Len(entries) : i # j => entries[i].name # entries[j].name

RootStates(type, n) ==
    {RootMissing, RootNotDir, RootUnreadable}
        \cup {RootDir(es) : es \in {x \in SeqsUpTo(EntryKinds(type), n) : DistinctNames(x)}}

OneTypeFs(type, g, l, same) ==
    [cwdIsHome |-> same,
     roots |-> [t \in {"skill", "domain"} |->
                  IF t = type THEN [global |-> g, local |-> l]
                  ELSE [global |-> RootMissing, local |-> RootMissing]]]

\* with cwd the home directory the local root is the global root
DiscoverFs(type) ==
    {OneTypeFs(type, g, l, FALSE) :
        g \in RootStates(type, MaxEntries), l \in RootStates(type, 1)}
    \cup {OneTypeFs(type, g, g, TRUE) : g \in RootStates(type, MaxEntries)}

InitDiscover ==
    /\ MainIdle
    /\ CallsIdle
    /\ RaceIdle
    /\ cacheFile = FileMissing
    /\ canWrite = TRUE
    /\ allItems = <<>>
    /\ cache = <<>>
    /\ sortedItems = <<>>
    /\ fs \in DiscoverFs("skill") \cup DiscoverFs("domain")

\* one call of primitives[i].discoverItems(); group records i
DiscoverCall(i) ==
    /\ pc = "idle"
    /\ LET r == discoverItems(primitives[i], fs)
       IN  /\ allItems' = r.items
           /\ pc' = IF r.threw THEN "threw" ELSE "returned"
    /\ group' = i
    /\ UNCHANGED <<envVars, args, cache, sortedItems, selectedItems, confirmation, round, outVars, callVars, raceVars>>

NextDiscover == \E i \in 1..Len(primitives) : DiscoverCall(i)

SpecDiscover == InitDiscover /\ [][NextDiscover]_vars

\* C10: discoverItems never throws, whatever the file system holds: a missing
\* root yields no items, a root that cannot be listed or is not a directory is
\* not fatal, and an entry that fails is dropped alone.
C10_DiscoverNeverThrows == pc # "threw"

(***************************************************************************)
(* Spec: one run of main, index.ts lines 135-332.  An action is the code   *)
(* main runs between two suspension points (the prompts, the child's       *)
(* exit), or up to process.exit.                                           *)
(***************************************************************************)
label(type) == IF type = "skill" THEN "Skills" ELSE "Domains"

\* the keys of Map.groupBy(items, (i) => i.type): types by first occurrence
RECURSIVE groupTypes(_)
groupTypes(items) ==
    IF items = <<>> THEN <<>>
    ELSE LET t == Head(items).type
             NotT(u) == u # t
         IN  <<t>> \o SelectSeq(groupTypes(Tail(items)), NotT)

groupItems(items, type) ==
    LET OfType(i) == i.type = type
    IN  SelectSeq(items, OfType)

\* new Set(Object.keys(cache.recent))
recentKeys(recent) == KeysOf(recent)

\* the options of the picker of one type, index.ts lines 238-245
pickerOptions(sorted, recent, type) ==
    LET items == groupItems(sorted, type)
    IN  [i \in 1..Len(items) |->
            [value |-> items[i], hint |-> cacheKey(items[i]) \in recentKeys(recent)]]

PickerPrompt(sorted, recent, g) ==
    [kind |-> "picker", type |-> groupTypes(sorted)[g],
     message |-> label(groupTypes(sorted)[g]),
     options |-> pickerOptions(sorted, recent, groupTypes(sorted)[g])]

ConfirmPrompt == [kind |-> "confirm", type |-> "", message |-> "Confirm", options |-> <<>>]

\* the lines --list prints for the items, index.ts lines 185-216
RECURSIVE Flatten(_)
Flatten(seqs) == IF seqs = <<>> THEN <<>> ELSE Head(seqs) \o Flatten(Tail(seqs))

listLines(all, sorted, recent) ==
    LET line(item) == [type |-> item.type, recent |-> cacheKey(item) \in recentKeys(recent),
                       source |-> item.source, name |-> item.name]
        hasMultipleTypes == Cardinality({all[i].type : i \in 1..Len(all)}) > 1
        byType == [g \in 1..Len(groupTypes(sorted)) |->
                     LET items == groupItems(sorted, groupTypes(sorted)[g])
                     IN  [i \in 1..Len(items) |-> line(items[i])]]
    IN  IF hasMultipleTypes THEN Flatten(byType)
        ELSE [i \in 1..Len(sorted) |-> line(sorted[i])]

\* clearCache, cache.ts lines 73-79: unlinkSync may throw
clearCache(file, writable) ==
    IF file.state = "missing" THEN [file |-> file, result |-> "absent"]
    ELSE IF writable THEN [file |-> FileMissing, result |-> "removed"]
    ELSE [file |-> file, result |-> "threw"]

\* the arguments of spawn("claude", args): plain strings, and the prompt
Arg(text) == [text |-> text, prompt |-> <<>>]
PromptArg(sections) == [text |-> "", prompt |-> sections]

RECURSIVE Args(_)
Args(texts) == IF texts = <<>> THEN <<>> ELSE <<Arg(Head(texts))>> \o Args(Tail(texts))

dangerousArgs(a) ==
    IF a.dangerousMode THEN <<Arg("--dangerously-skip-permissions")>> ELSE <<>>

\* promptSections: per type of the selection, the contents formatForPrompt frames
promptSections(selected) ==
    [g \in 1..Len(groupTypes(selected)) |->
        [type |-> groupTypes(selected)[g],
         items |-> groupItems(selected, groupTypes(selected)[g])]]

\* spawnArgs with the prompt flag pushed whatever the selection
spawnArgsPromptAlways(a, selected) ==
    dangerousArgs(a) \o <<Arg("--append-system-prompt"), PromptArg(promptSections(selected))>>
        \o Args(a.claudeArgs)

spawnArgs(a, selected) ==
    IF selected = <<>>
    THEN dangerousArgs(a) \o Args(a.claudeArgs)
    ELSE dangerousArgs(a) \o <<Arg("--append-system-prompt"), PromptArg(promptSections(selected))>>
            \o Args(a.claudeArgs)

\* what the run was given
parsed == parseArgs(argv, dangerous)
discovered == discoverAll(fs)

Exit(code) == pc' = "exited" /\ exitCode' = code

\* logger.warn at index.ts lines 143-145, reached by every run past --help
dangerWarning(a) ==
    IF a.dangerousMode
    THEN <<"DANGEROUS MODE: Permission checks will be skipped">> ELSE <<>>

\* --help
MainHelp ==
    /\ pc = "start"
    /\ parsed.help
    /\ args' = parsed
    /\ logged' = Append(logged, "help")
    /\ Exit(0)
    /\ UNCHANGED <<envVars, allItems, cache, sortedItems, selectedItems, group,
                   confirmation, round, tty, roundInput, listed, cancelled, spawned,
                   cacheReads, cacheWrites, loaded, callVars, raceVars>>

\* --clear-recent
MainClearRecent ==
    /\ pc = "start"
    /\ ~parsed.help /\ parsed.clearRecent
    /\ args' = parsed
    /\ cacheFile' = clearCache(cacheFile, canWrite).file
    /\ logged' = Append(logged \o dangerWarning(parsed),
            CASE clearCache(cacheFile, canWrite).result = "removed" ->
                    "Recent selections cache cleared"
              [] clearCache(cacheFile, canWrite).result = "absent" ->
                    "No recent selections cache to clear"
              [] OTHER -> "Failed to clear cache")
    /\ Exit(0)
    /\ UNCHANGED <<argv, dangerous, fs, canWrite, allItems, cache, sortedItems,
                   selectedItems, group, confirmation, round, tty, roundInput, listed,
                   cancelled, spawned, cacheReads, cacheWrites, loaded, callVars, raceVars>>

Discovering == pc = "start" /\ ~parsed.help /\ ~parsed.clearRecent

\* a discoverItems call throws: main().catch
MainDiscoverThrows ==
    /\ Discovering
    /\ discovered.threw
    /\ args' = parsed
    /\ logged' = Append(logged \o dangerWarning(parsed), "Unhandled error")
    /\ Exit(1)
    /\ UNCHANGED <<envVars, allItems, cache, sortedItems, selectedItems, group,
                   confirmation, round, tty, roundInput, listed, cancelled, spawned,
                   cacheReads, cacheWrites, loaded, callVars, raceVars>>

\* MainNoItems with the cache loaded before the emptiness check
MainNoItemsAfterLoad ==
    /\ pc = "start" /\ ~parsed.help /\ ~parsed.clearRecent
    /\ ~discovered.threw /\ discovered.items = <<>>
    /\ args' = parsed
    /\ allItems' = discovered.items
    /\ cache' = loadCache(cacheFile)
    /\ cacheReads' = cacheReads + loadCacheReads(cacheFile)
    /\ logged' = Append(logged \o dangerWarning(parsed),
                        "No primitives found. Check your directories:")
    /\ Exit(1)
    /\ UNCHANGED <<envVars, sortedItems, selectedItems, group,
                   confirmation, round, tty, roundInput, listed, cancelled, spawned,
                   cacheWrites, loaded, callVars, raceVars>>

\* allItems.length === 0
MainNoItems ==
    /\ Discovering
    /\ ~discovered.threw /\ discovered.items = <<>>
    /\ args' = parsed
    /\ allItems' = discovered.items
    /\ logged' = Append(logged \o dangerWarning(parsed),
                        "No primitives found. Check your directories:")
    /\ Exit(1)
    /\ UNCHANGED <<envVars, cache, sortedItems, selectedItems, group,
                   confirmation, round, tty, roundInput, listed, cancelled, spawned,
                   cacheReads, cacheWrites, loaded, callVars, raceVars>>

\* index.ts lines 170-173
LoadAndSort ==
    /\ args' = parsed
    /\ allItems' = sortByRecentArg(discovered.items, loadCache(cacheFile))
    /\ cache' = loadCache(cacheFile)
    /\ cacheReads' = cacheReads + loadCacheReads(cacheFile)
    /\ sortedItems' = sortByRecent(discovered.items, loadCache(cacheFile))

\* --list
MainList ==
    /\ Discovering
    /\ ~discovered.threw /\ discovered.items # <<>>
    /\ parsed.list
    /\ LoadAndSort
    /\ listed' = listLines(allItems', sortedItems', cache')
    /\ logged' = Append(logged \o dangerWarning(parsed), "Found primitive(s):")
    /\ Exit(0)
    /\ UNCHANGED <<envVars, selectedItems, group, confirmation, round, tty, roundInput,
                   cancelled, spawned, cacheWrites, loaded, callVars, raceVars>>

\* the top of the selection loop up to the first picker, index.ts lines 226-251
BeginRound(sorted, recent) ==
    /\ selectedItems' = <<>>
    /\ roundInput' = <<>>
    /\ round' = round + 1
    /\ group' = 1
    /\ tty' = Append(tty, PickerPrompt(sorted, recent, 1))
    /\ pc' = "picker"

\* the interactive run up to its first picker
MainBrowse ==
    /\ Discovering
    /\ ~discovered.threw /\ discovered.items # <<>>
    /\ ~parsed.list
    /\ LoadAndSort
    /\ BeginRound(sortedItems', cache')
    /\ logged' = logged \o dangerWarning(parsed)
    /\ UNCHANGED <<envVars, confirmation, listed, cancelled, exitCode, spawned,
                   cacheWrites, loaded, callVars, raceVars>>

\* PickerCancel without its process.exit: the cancelled picker counts as an
\* empty selection
PickerCancelGoesOn ==
    /\ pc = "picker"
    /\ cancelled' = TRUE
    /\ roundInput' = Append(roundInput, <<>>)
    /\ IF group < Len(groupTypes(sortedItems))
       THEN /\ group' = group + 1
            /\ tty' = Append(tty, PickerPrompt(sortedItems, cache, group + 1))
            /\ pc' = "picker"
       ELSE /\ group' = group
            /\ tty' = Append(tty, ConfirmPrompt)
            /\ pc' = "confirm"
    /\ UNCHANGED <<envVars, args, allItems, cache, sortedItems, selectedItems,
                   confirmation, round, logged, listed, exitCode, spawned, cacheReads,
                   cacheWrites, loaded, callVars, raceVars>>

\* isCancel(selected), index.ts lines 253-256
PickerCancel ==
    /\ pc = "picker"
    /\ cancelled' = TRUE
    /\ Exit(0)
    /\ UNCHANGED <<envVars, args, allItems, cache, sortedItems, selectedItems, group,
                   confirmation, round, tty, roundInput, logged, listed, spawned,
                   cacheReads, cacheWrites, loaded, callVars, raceVars>>

\* the orders in which options 1..n can be toggled on
Selections(n) ==
    {sel \in SeqsUpTo(1..n, n) : \A i, j \in 1..Len(sel) : i # j => sel[i] # sel[j]}

\* the picker returns the options toggled; the next picker or the confirmation
PickerSelect(sel) ==
    /\ pc = "picker"
    /\ LET options == tty[Len(tty)].options
           selected == [i \in 1..Len(sel) |-> options[sel[i]].value]
       IN  /\ selectedItems' = selectedItems \o selected
           /\ roundInput' = Append(roundInput, selected)
    /\ IF group < Len(groupTypes(sortedItems))
       THEN /\ group' = group + 1
            /\ tty' = Append(tty, PickerPrompt(sortedItems, cache, group + 1))
            /\ pc' = "picker"
       ELSE /\ group' = group
            /\ tty' = Append(tty, ConfirmPrompt)
            /\ pc' = "confirm"
    /\ UNCHANGED <<envVars, args, allItems, cache, sortedItems, confirmation, round,
                   logged, listed, cancelled, exitCode, spawned, cacheReads, cacheWrites, loaded,
                   callVars, raceVars>>

\* ConfirmCancel without its process.exit: the loop is left as on "yes" and
\* the child is spawned without a prompt
ConfirmCancelSpawns(answer) ==
    /\ pc = "confirm"
    /\ answer \in {"cancel", "exit"}
    /\ confirmation' = answer
    /\ cancelled' = TRUE
    /\ spawned' = Append(spawned, spawnArgs(args, <<>>))
    /\ pc' = "spawned"
    /\ UNCHANGED <<envVars, args, allItems, cache, sortedItems, selectedItems, group,
                   round, tty, roundInput, logged, listed, exitCode, cacheReads,
                   cacheWrites, loaded, callVars, raceVars>>

\* isCancel(confirmation) || confirmation === "exit"
ConfirmCancel(answer) ==
    /\ pc = "confirm"
    /\ answer \in {"cancel", "exit"}
    /\ confirmation' = answer
    /\ cancelled' = TRUE
    /\ Exit(0)
    /\ UNCHANGED <<envVars, args, allItems, cache, sortedItems, selectedItems, group,
                   round, tty, roundInput, logged, listed, spawned, cacheReads,
                   cacheWrites, loaded, callVars, raceVars>>

\* ConfirmRestart with selectedItems = [] hoisted out of the loop
ConfirmRestartKeeps ==
    /\ pc = "confirm"
    /\ round < MaxRounds
    /\ confirmation' = "no"
    /\ roundInput' = <<>>
    /\ round' = round + 1
    /\ group' = 1
    /\ tty' = Append(tty, PickerPrompt(sortedItems, cache, 1))
    /\ pc' = "picker"
    /\ UNCHANGED <<envVars, args, allItems, cache, sortedItems, selectedItems, logged,
                   listed, cancelled, exitCode, spawned, cacheReads, cacheWrites, loaded, callVars, raceVars>>

\* ConfirmRestart with the cache loaded again at the top of the loop
ConfirmRestartReloads ==
    /\ pc = "confirm"
    /\ round < MaxRounds
    /\ confirmation' = "no"
    /\ cache' = loadCache(cacheFile)
    /\ cacheReads' = cacheReads + loadCacheReads(cacheFile)
    /\ sortedItems' = sortByRecent(allItems, cache')
    /\ BeginRound(sortedItems', cache')
    /\ UNCHANGED <<envVars, args, allItems, logged, listed,
                   cancelled, exitCode, spawned, cacheWrites, loaded, callVars, raceVars>>

\* "no": the loop starts over
ConfirmRestart ==
    /\ pc = "confirm"
    /\ round < MaxRounds
    /\ confirmation' = "no"
    /\ BeginRound(sortedItems, cache)
    /\ UNCHANGED <<envVars, args, allItems, cache, sortedItems, logged, listed,
                   cancelled, exitCode, spawned, cacheReads, cacheWrites, loaded, callVars, raceVars>>

\* ConfirmProceedEmpty without the early return: updateCache runs on the empty
\* selection
ConfirmProceedEmptyUpdates ==
    /\ pc = "confirm"
    /\ selectedItems = <<>>
    /\ confirmation' = "yes"
    /\ \E now \in 1..MaxNow : cacheFile' = updateCache(cacheFile, selectedItems, now, canWrite)
    /\ cacheReads' = cacheReads + loadCacheReads(cacheFile)
    /\ cacheWrites' = cacheWrites + 1
    /\ spawned' = Append(spawned, spawnArgs(args, selectedItems))
    /\ pc' = "spawned"
    /\ UNCHANGED <<argv, dangerous, fs, canWrite, args, allItems, cache, sortedItems,
                   selectedItems, group, round, tty, roundInput, logged, listed, cancelled,
                   exitCode, loaded, callVars, raceVars>>

\* "yes" with nothing selected, index.ts lines 288-294
ConfirmProceedEmpty ==
    /\ pc = "confirm"
    /\ selectedItems = <<>>
    /\ confirmation' = "yes"
    /\ logged' = Append(logged, "No primitives selected. Launching Claude without preloaded context...")
    /\ spawned' = Append(spawned, spawnArgs(args, selectedItems))
    /\ pc' = "spawned"
    /\ UNCHANGED <<envVars, args, allItems, cache, sortedItems, selectedItems, group,
                   round, tty, roundInput, listed, cancelled, exitCode, cacheReads,
                   cacheWrites, loaded, callVars, raceVars>>

\* loadContent, types.ts lines 204-219 and domain.ts lines 117-132: readFileSync
\* of item.path (and readdirSync of its references directory) with no try around
\* it; unreadable holds the paths whose content cannot be read
loadContent(item, unreadable) ==
    [item |-> item, threw |-> item.path \in unreadable]

\* the order in which main loads the selection: by type group, index.ts 299-308
loadOrder(selected) ==
    Flatten([g \in 1..Len(promptSections(selected)) |-> promptSections(selected)[g].items])

\* the loadContent calls main makes: up to and including the first that throws
loadCalls(selected, unreadable) ==
    LET order == loadOrder(selected)
        bad == {i \in 1..Len(order) : loadContent(order[i], unreadable).threw}
        last == IF bad = {} THEN Len(order)
                ELSE CHOOSE i \in bad : \A j \in bad : i <= j
    IN  [i \in 1..last |-> loadContent(order[i], unreadable)]

\* ConfirmProceed with a try around each loadContent: an unreadable item is
\* left out and the child gets the prompt of the others
ConfirmProceedSkipsUnreadable(now, unreadable) ==
    /\ pc = "confirm"
    /\ selectedItems # <<>>
    /\ confirmation' = "yes"
    /\ cacheFile' = updateCache(cacheFile, selectedItems, now, canWrite)
    /\ cacheReads' = cacheReads + loadCacheReads(cacheFile)
    /\ cacheWrites' = cacheWrites + 1
    /\ loaded' = [i \in 1..Len(loadOrder(selectedItems)) |->
                    loadContent(loadOrder(selectedItems)[i], unreadable)]
    /\ logged' = logged
    /\ spawned' = Append(spawned,
            spawnArgs(args, SelectSeq(selectedItems, LAMBDA it : it.path \notin unreadable)))
    /\ pc' = "spawned"
    /\ exitCode' = exitCode
    /\ UNCHANGED <<argv, dangerous, fs, canWrite, args, allItems, cache, sortedItems,
                   selectedItems, group, round, tty, roundInput, listed, cancelled,
                   callVars, raceVars>>

\* ConfirmProceed with updateCache moved behind the load step: a run that
\* cannot load a content leaves the cache file alone
ConfirmProceedUpdatesLast(now, unreadable) ==
    /\ pc = "confirm"
    /\ selectedItems # <<>>
    /\ confirmation' = "yes"
    /\ loaded' = loadCalls(selectedItems, unreadable)
    /\ IF \E i \in 1..Len(loaded') : loaded'[i].threw
       THEN /\ logged' = Append(logged, "Unhandled error")
            /\ Exit(1)
            /\ spawned' = spawned
            /\ UNCHANGED <<cacheFile, cacheReads, cacheWrites>>
       ELSE /\ logged' = logged
            /\ cacheFile' = updateCache(cacheFile, selectedItems, now, canWrite)
            /\ cacheReads' = cacheReads + loadCacheReads(cacheFile)
            /\ cacheWrites' = cacheWrites + 1
            /\ spawned' = Append(spawned, spawnArgs(args, selectedItems))
            /\ pc' = "spawned"
            /\ exitCode' = exitCode
    /\ UNCHANGED <<argv, dangerous, fs, canWrite, args, allItems, cache, sortedItems,
                   selectedItems, group, round, tty, roundInput, listed, cancelled,
                   callVars, raceVars>>

\* "yes" with a selection, index.ts lines 296-326: updateCache, then the
\* contents are loaded (a loadContent that throws ends in main().catch), then
\* the child is spawned
ConfirmProceed(now, unreadable) ==
    /\ pc = "confirm"
    /\ selectedItems # <<>>
    /\ confirmation' = "yes"
    /\ cacheFile' = updateCache(cacheFile, selectedItems, now, canWrite)
    /\ cacheReads' = cacheReads + loadCacheReads(cacheFile)
    /\ cacheWrites' = cacheWrites + 1
    /\ loaded' = loadCalls(selectedItems, unreadable)
    /\ IF \E i \in 1..Len(loaded') : loaded'[i].threw
       THEN /\ logged' = Append(logged, "Unhandled error")
            /\ Exit(1)
            /\ spawned' = spawned
       ELSE /\ logged' = logged
            /\ spawned' = Append(spawned, spawnArgs(args, selectedItems))
            /\ pc' = "spawned"
            /\ exitCode' = exitCode
    /\ UNCHANGED <<argv, dangerous, fs, canWrite, args, allItems, cache, sortedItems,
                   selectedItems, group, round, tty, roundInput, listed, cancelled,
                   callVars, raceVars>>

\* claude.on("exit", (code) => process.exit(code || 0)); -1 stands for null
ChildExit(code) ==
    /\ pc = "spawned"
    /\ Exit(IF code = -1 THEN 0 ELSE code)
    /\ UNCHANGED <<envVars, args, allItems, cache, sortedItems, selectedItems, group,
                   confirmation, round, tty, roundInput, logged, listed, cancelled,
                   spawned, cacheReads, cacheWrites, loaded, callVars, raceVars>>

(***************************************************************************)
(* The runs explored.                                                      *)
(***************************************************************************)
Fs(sg, sl, dg, dl, same) ==
    [cwdIsHome |-> same,
     roots |-> [t \in {"skill", "domain"} |->
                  IF t = "skill" THEN [global |-> sg, local |-> sl]
                  ELSE [global |-> dg, local |-> dl]]]

FolderAlpha == DirEntry("alpha", TRUE, TRUE, "")
FolderBeta == DirEntry("Beta", TRUE, TRUE, "")
Dangling == LinkEntry("gamma", "none", "")

MainFs ==
    {Fs(sg, sl, dg, RootMissing, FALSE) :
        sg \in {RootMissing, RootDir(<<FolderAlpha>>), RootDir(<<Dangling, FolderBeta, FolderAlpha>>)},
        sl \in {RootMissing, RootDir(<<FolderAlpha>>)},
        dg \in {RootMissing, RootDir(<<FolderAlpha>>)}}
    \cup {Fs(RootNotDir, RootMissing, RootDir(<<FolderAlpha>>), RootMissing, FALSE),
          Fs(RootDir(<<Dangling>>), RootMissing, RootMissing, RootMissing, FALSE),
          Fs(RootDir(<<FolderAlpha>>), RootDir(<<FolderAlpha>>),
             RootDir(<<FolderAlpha>>), RootDir(<<FolderAlpha>>), TRUE)}

MainCacheFiles ==
    {FileMissing, FileCorrupt,
     FileOk(<<Entry("skill", "global", "alpha", 1)>>),
     FileOk(<<Entry("skill", "global", "alpha", 1), Entry("domain", "global", "alpha", MaxNow)>>),
     FileOk(<<Entry("skill", "global", "Beta", 0)>>),
     StampedFile(11, 1)}

\* at launch every content can be read, or that of one selected item cannot
Unreadables(selected) ==
    {{}} \cup {{selected[i].path} : i \in 1..Len(selected)}

MainArgv ==
    {<<>>, <<"--list">>, <<"-h">>, <<"--clear-recent">>,
     <<"--model", "--", "--list", "-h", "--">>}

Init ==
    /\ argv \in MainArgv
    /\ dangerous \in BOOLEAN
    /\ fs \in MainFs
    /\ cacheFile \in MainCacheFiles
    /\ canWrite \in BOOLEAN
    /\ pc = "start"
    /\ args = parseArgs(<<>>, FALSE)
    /\ allItems = <<>>
    /\ cache = <<>>
    /\ sortedItems = <<>>
    /\ selectedItems = <<>>
    /\ group = 0
    /\ confirmation = ""
    /\ round = 0
    /\ tty = <<>>
    /\ roundInput = <<>>
    /\ logged = <<>>
    /\ listed = <<>>
    /\ cancelled = FALSE
    /\ exitCode = -1
    /\ spawned = <<>>
    /\ cacheReads = 0
    /\ cacheWrites = 0
    /\ loaded = <<>>
    /\ CallsIdle
    /\ RaceIdle

Next ==
    \/ MainHelp
    \/ MainClearRecent
    \/ MainDiscoverThrows
    \/ MainNoItems
    \/ MainList
    \/ MainBrowse
    \/ PickerCancel
    \/ /\ pc = "picker"
       /\ \E sel \in Selections(Len(tty[Len(tty)].options)) : PickerSelect(sel)
    \/ \E answer \in {"cancel", "exit"} : ConfirmCancel(answer)
    \/ ConfirmRestart
    \/ ConfirmProceedEmpty
    \/ \E now \in 1..MaxNow, unreadable \in Unreadables(selectedItems) :
            ConfirmProceed(now, unreadable)
    \/ \E code \in {-1, 0, 1} : ChildExit(code)

Spec == Init /\ [][Next]_vars

(***************************************************************************)
(* Properties of a run (Spec).                                             *)
(***************************************************************************)
Pickers == {k \in 1..Len(tty) : tty[k].kind = "picker"}

RegistrationIndex(type) == CHOOSE i \in 1..Len(primitives) : primitives[i] = type

\* C1: in every round the pickers come in registration order, the Skills
\* picker before the Domains picker, whatever the recency cache holds.
C1_RegistrationOrder ==
    \A k \in Pickers :
        (k + 1) \in Pickers =>
            RegistrationIndex(tty[k].type) < RegistrationIndex(tty[k + 1].type)

\* C3: in a run without --clear-recent the cache file changes only in the step
\* that answers the confirmation with "proceed" while items are selected; every
\* other step (cancel, exit, restart, empty discovery, --list, proceed with
\* nothing selected) leaves the file as it is.
C3_CacheMutatedOnlyOnLaunch ==
    [][(~parsed.clearRecent /\ cacheFile' # cacheFile) =>
            (pc = "confirm" /\ confirmation' = "yes" /\ selectedItems # <<>>)]_vars

\* a launch after a restart has changed the file main loaded
C3_Witness ==
    /\ pc = "spawned" /\ round > 1 /\ selectedItems # <<>>
    /\ cacheFile.state = "ok" /\ cacheFile.recent # cache

\* C4 as stated: the cache file is read at most once and written at most once
\* per run, the write only on confirmed launch with a non-empty selection.
C4_ReadOnceWriteOnce ==
    /\ cacheReads <= 1
    /\ cacheWrites <= 1
    /\ cacheWrites = 1 => (confirmation = "yes" /\ selectedItems # <<>>)

\* C4 amended: the cache file is read at most twice per run, by main after
\* discovery and once more inside updateCache, and written at most once; the
\* second read and the write happen only on confirmed launch with a non-empty
\* selection.
C4_ReadTwiceWriteOnce ==
    /\ cacheReads <= 2
    /\ cacheWrites <= 1
    /\ (cacheReads = 2 \/ cacheWrites = 1) => (confirmation = "yes" /\ selectedItems # <<>>)

\* a launch has read the file a second time and written it
C4_Witness == pc = "spawned" /\ cacheReads = 2 /\ cacheWrites = 1

\* C6: in every picker and in the --list output of a type, every item marked
\* recent comes before every item of that type not marked recent.
C6_RecentFirst ==
    /\ \A k \in Pickers : \A i, j \in 1..Len(tty[k].options) :
            (i < j /\ tty[k].options[j].hint) => tty[k].options[i].hint
    /\ \A i, j \in 1..Len(listed) :
            (i < j /\ listed[i].type = listed[j].type /\ listed[j].recent) => listed[i].recent

\* C7: a cancellation (of a picker, of the confirmation, or "exit") ends the
\* run at once with status 0: nothing is spawned, the cache is not written,
\* and no step follows, so no prompt is shown after it.
C7_CancelTerminates ==
    /\ [](cancelled =>
            /\ pc = "exited" /\ exitCode = 0
            /\ spawned = <<>>
            /\ cacheWrites = 0 /\ loadCache(cacheFile) = cache)
    /\ [][~cancelled]_vars

\* a prompt was cancelled after items had been selected
C7_Witness == cancelled /\ selectedItems # <<>> /\ round > 1

\* C8: "restart" goes back to the first picker with the selection emptied; what
\* is launched is exactly what the pickers of the last round returned; and
\* every picker of a type shows the same options with the same hints in every
\* round.
C8_RestartDiscards ==
    /\ (pc = "picker" /\ group = 1) => selectedItems = <<>>
    /\ pc \in {"picker", "confirm", "spawned"} => selectedItems = Flatten(roundInput)
    /\ pc = "spawned" => spawned = <<spawnArgs(args, Flatten(roundInput))>>
    /\ \A k, m \in Pickers : tty[k].type = tty[m].type => tty[k].options = tty[m].options

\* a launch of a selection made in the second round
C8_Witness == pc = "spawned" /\ round > 1 /\ selectedItems # <<>> /\ confirmation = "yes"

\* the run discovers, and discovers nothing
NoItemsRun ==
    ~parsed.help /\ ~parsed.clearRecent /\ ~discovered.threw /\ discovered.items = <<>>

\* C9: when discovery yields no items the run reports guidance and exits with
\* status 1 before any picker or list line; the cache file is neither read nor
\* written and nothing is spawned, with and without --list.
C9_NoItemsExits ==
    /\ []((NoItemsRun /\ pc # "start") =>
            /\ pc = "exited" /\ exitCode = 1
            /\ logged = dangerWarning(parsed) \o <<"No primitives found. Check your directories:">>
            /\ tty = <<>> /\ listed = <<>>
            /\ cacheReads = 0 /\ cacheWrites = 0
            /\ spawned = <<>>)
    /\ [][NoItemsRun => cacheFile' = cacheFile]_vars

\* an empty discovery under --list, with a cache file that could have been read
C9_Witness == NoItemsRun /\ pc = "exited" /\ parsed.list /\ cacheFile.state = "ok"

\* a loadContent call of this run threw
LoadFailed == \E i \in 1..Len(loaded) : loaded[i].threw

\* the items whose contents a spawned argument list carries in its prompt
PromptItems(arglist) ==
    Flatten([i \in 1..Len(arglist) |->
                Flatten([g \in 1..Len(arglist[i].prompt) |-> arglist[i].prompt[g].items])])

\* C11: a selected item whose content cannot be read in the final load step is
\* fatal for the run: the call that throws is the last thing the load step
\* does, the error is reported by the top-level handler, the process exits with
\* a non-zero status and the child is never spawned; a prompt that reaches a
\* child holds every selected item, never a part of the selection.
C11_LoadFailureIsFatal ==
    /\ LoadFailed =>
        /\ loaded[Len(loaded)].threw
        /\ \A i \in 1..(Len(loaded) - 1) : ~loaded[i].threw
        /\ pc = "exited"
        /\ exitCode > 0
        /\ logged # <<>> /\ logged[Len(logged)] = "Unhandled error"
        /\ spawned = <<>>
    /\ \A n \in 1..Len(spawned) :
        PromptItems(spawned[n]) # <<>> => PromptItems(spawned[n]) = loadOrder(selectedItems)

\* the second content of a selection of two or more could not be read, after
\* the first had been loaded
C11_Witness ==
    /\ Len(loaded) = 2
    /\ ~loaded[1].threw /\ loaded[2].threw
    /\ Len(selectedItems) > 2
    /\ pc = "exited"

\* the tokens of argv after its first "--"
AfterSeparator ==
    IF IndexOf(argv, "--") = 0 THEN <<>>
    ELSE SubSeq(argv, IndexOf(argv, "--") + 1, Len(argv))

\* the tokens of argv before its first "--"
BeforeSeparator ==
    IF IndexOf(argv, "--") = 0 THEN argv
    ELSE SubSeq(argv, 1, IndexOf(argv, "--") - 1)

\* C13: the argument list handed to the child is the permission-bypass flag
\* if and only if dangerous mode is on, then the prompt flag with the prompt of
\* the whole selection if and only if something was selected, then the
\* passthrough arguments; every token after "--" is among these, unmodified
\* and in order, and only tokens before "--" are read as flags of the program.
C13_ArgumentList ==
    \A n \in 1..Len(spawned) :
        LET a == spawned[n]
            d == IF dangerous THEN 1 ELSE 0
            p == IF selectedItems # <<>> THEN 2 ELSE 0
        IN  /\ Len(a) = d + p + Len(args.claudeArgs)
            /\ dangerous => a[1] = Arg("--dangerously-skip-permissions")
            /\ \A i \in 1..Len(a) :
                    a[i] = Arg("--dangerously-skip-permissions") => dangerous /\ i = 1
            /\ selectedItems # <<>> =>
                    /\ a[d + 1] = Arg("--append-system-prompt")
                    /\ a[d + 2].prompt # <<>>
                    /\ PromptItems(<<a[d + 2]>>) = loadOrder(selectedItems)
            /\ \A i \in 1..Len(a) :
                    (a[i] = Arg("--append-system-prompt") \/ a[i].prompt # <<>>) =>
                        selectedItems # <<>> /\ i \in {d + 1, d + 2}
            /\ SubSeq(a, d + p + 1, Len(a)) = Args(args.claudeArgs)
            /\ SubSeq(a, d + p + 1, d + p + Len(AfterSeparator)) = Args(AfterSeparator)
            /\ args.help = \E i \in 1..Len(BeforeSeparator) : IsHelp(BeforeSeparator[i])
            /\ args.list = \E i \in 1..Len(BeforeSeparator) : IsList(BeforeSeparator[i])
            /\ args.clearRecent = \E i \in 1..Len(BeforeSeparator) : IsClear(BeforeSeparator[i])

\* a child spawned in dangerous mode with a selection, by a run whose "--"
\* was followed by flag names
C13_Witness ==
    /\ spawned # <<>>
    /\ dangerous
    /\ selectedItems # <<>>
    /\ \E i \in 1..Len(AfterSeparator) : IsList(AfterSeparator[i])
    /\ \E i \in 1..Len(AfterSeparator) : IsHelp(AfterSeparator[i])

\* the cache keys of the selection
SelectedKeys == {cacheKey(selectedItems[i]) : i \in 1..Len(selectedItems)}

\* C15 as stated: in a run that aborts because a selected content cannot be
\* read, the child was never launched and the cache file holds every selected
\* item.
C15_AbortedRunHasAllSelected ==
    LoadFailed =>
        /\ spawned = <<>>
        /\ SelectedKeys \subseteq KeysOf(loadCache(cacheFile))

\* C15 amended: no content is loaded before updateCache(selectedItems) has
\* run; so in a run that aborts because a selected content cannot be read the
\* child was never launched and the cache file has been rewritten with what
\* updateCache makes of the loaded cache and the selection, or, when the write
\* failed, is as main had loaded it.
C15_UpdateBeforeLoad ==
    /\ loaded # <<>> => cacheWrites = 1
    /\ LoadFailed =>
        /\ spawned = <<>>
        /\ canWrite => \E now \in 1..MaxNow :
                cacheFile = FileOk(Prune(SetAll(cache, selectedItems, now)))
        /\ ~canWrite => loadCache(cacheFile) = cache

\* an aborted run whose selection is now in the cache file, which it was not
\* before
C15_Witness ==
    /\ LoadFailed
    /\ pc = "exited"
    /\ cacheFile.state = "ok"
    /\ SelectedKeys \subseteq KeysOf(cacheFile.recent)
    /\ \E k \in SelectedKeys : ~HasKey(cache, k)

\* the confirmation prompts shown so far
ConfirmsShown == {i \in 1..Len(tty) : tty[i] = ConfirmPrompt}

\* what holds of a run once it has spawned the child
C16_Spawned ==
    /\ Len(spawned) <= 1
    /\ spawned # <<>> =>
        /\ confirmation = "yes"
        /\ ~cancelled
        /\ ~args.help /\ ~args.list /\ ~args.clearRecent
        /\ allItems # <<>>
        /\ tty[Len(tty)] = ConfirmPrompt
        /\ Cardinality(ConfirmsShown) = round

\* what holds of a step that spawns the child
C16_SpawnStep ==
    spawned' # spawned =>
        /\ pc = "confirm"
        /\ tty[Len(tty)] = ConfirmPrompt
        /\ confirmation' = "yes"
        /\ spawned = <<>>

\* C16: the child is spawned at most once in a run, and only by the step in
\* which the user answers "yes" to the confirmation prompt of the current
\* round; a run with --help, --list or --clear-recent, a run that discovered
\* nothing, a cancelled run and a run whose last answer was "no" have spawned
\* nothing.
C16_SpawnAtMostOnce == []C16_Spawned /\ [][C16_SpawnStep]_vars

\* the child of a run that was restarted once has exited: one spawn, in the
\* second round
C16_Witness ==
    /\ pc = "exited"
    /\ Len(spawned) = 1
    /\ round = 2
    /\ confirmation = "yes"

====
